---- MODULE Spec2Model ----
(***************************************************************************)
(* A model of webextensions-jsdom (src/src/index.js): fromManifest and the *)
(* WebExtensionsJSDOM class that loads the background and the popup of a   *)
(* WebExtension into separate JSDOM contexts with a stubbed browser.       *)
(*                                                                         *)
(* fromManifest is an async function.  The program counter pc walks its    *)
(* statements; the positions in AwaitPoints are its awaits.  JavaScript    *)
(* runs to completion, so code outside fromManifest (page event handlers,  *)
(* the test that drives the extension, the settling of a promise) runs     *)
(* only while pc is at an await or after fromManifest has settled.         *)
(***************************************************************************)
EXTENDS Integers, Sequences, FiniteSets, TLC

VARIABLES
    input,          \* the manifest, the page files and the options as given
    options,        \* the options object, which fromManifest mutates
    pc,             \* position of fromManifest (and of the build it awaits)
    cur,            \* the running buildBackground/buildPopup/buildDom frame
    browsers,       \* the stubs createBrowser has made, by identity 1..n
    doms,           \* the JSDOM instances made, by identity 1..n
    webExtension,   \* this.webExtension of the WebExtensionsJSDOM instance
    result,         \* the local webExtension of fromManifest, its result
    afterBuild,     \* per context, the state of the afterBuild call
    lastCall,       \* the latest runtime.sendMessage call in the popup
    lastClick       \* the latest popup.helper.clickElementById call

vars == <<input, options, pc, cur, browsers, doms, webExtension, result,
          afterBuild, lastCall, lastClick>>

----------------------------------------------------------------------------
(* Bounds of the model. *)

MaxScripts == 2        \* script tags of a page / entries of background.scripts
MaxListeners == 3      \* calls of runtime.onMessage.addListener

Contexts == {"background", "popup"}
BackgroundFiles == {"a.js", "b.js"}
PopupFiles == {"popup.js"}
\* background scripts that call browser.runtime.onMessage.addListener when
\* they are evaluated (README.md, the example's background.js)
ListenerScripts == {"a.js"}
\* popup scripts that add the click handler that sends "usefulMessage"
\* (README.md, the example's popup.js)
SenderScripts == {"popup.js"}
ElementIds == {"doSomethingUseful"}
Messages == {"usefulMessage", "other"}
None == "none"

SeqsUpTo(S, n) == UNION {[1..k -> S] : k \in 0..n}

----------------------------------------------------------------------------
(* Inputs: the manifest, the files it names, and the options argument. *)

\* one per-context option: absent, false, or an object; a boolean option
\* that may be absent is "undefined", "true" or "false"
NoObject(kind) ==
    [kind |-> kind, apiFake |-> "undefined", afterBuild |-> "none",
     beforeParse |-> FALSE]
OptionObjects ==
    [kind : {"object"}, apiFake : {"undefined", "true", "false"},
     afterBuild : {"none", "sync", "async"}, beforeParse : BOOLEAN]
EmptyObject == NoObject("object")

DefaultInput ==
    [background |-> "page",                 \* manifest.background
     bgScripts |-> <<"a.js", "b.js">>,      \* its script tags / its scripts
     popup |-> TRUE,                        \* browser_action.default_popup
     popupScripts |-> <<"popup.js">>,
     sidebar |-> FALSE,                     \* sidebar_action.default_panel
     optBackground |-> NoObject("undefined"),
     optPopup |-> NoObject("undefined"),
     optSidebar |-> "undefined",
     apiFake |-> "undefined",
     wiring |-> "undefined"]

\* what the manifest declares, which options are present, the two switches
PresenceInputs ==
    {[DefaultInput EXCEPT !.background = b,
                          !.bgScripts = IF b \in {"page", "scripts"}
                                        THEN @ ELSE <<>>,
                          !.popup = p,
                          !.popupScripts = IF p THEN @ ELSE <<>>,
                          !.sidebar = s[1], !.optSidebar = s[2],
                          !.optBackground = ob, !.optPopup = op,
                          !.apiFake = f, !.wiring = w] :
        b \in {"none", "empty", "page", "scripts"}, p \in BOOLEAN,
        s \in {<<FALSE, "undefined">>, <<TRUE, "undefined">>, <<TRUE, "false">>},
        ob \in {NoObject("undefined"), NoObject("false"), EmptyObject},
        op \in {NoObject("undefined"), NoObject("false"), EmptyObject},
        f \in {"undefined", "true"}, w \in {"undefined", "true", "false"}}

\* the per-context option objects
OptionInputs ==
    {[DefaultInput EXCEPT !.background = b, !.optBackground = ob,
                          !.optPopup = op, !.apiFake = f] :
        b \in {"page"}, ob \in OptionObjects, op \in OptionObjects,
        f \in {"undefined", "true", "false"}}

\* the scripts of the two pages
ScriptInputs ==
    {[DefaultInput EXCEPT !.background = b, !.bgScripts = bs,
                          !.popupScripts = ps, !.wiring = w,
                          !.optBackground = o, !.optPopup = o,
                          !.apiFake = f] :
        b \in {"page", "scripts"},
        bs \in SeqsUpTo(BackgroundFiles, MaxScripts),
        ps \in SeqsUpTo(PopupFiles, MaxScripts),
        w \in {"undefined", "true"},
        o \in {NoObject("undefined"),
               [EmptyObject EXCEPT !.beforeParse = TRUE]},
        f \in {"undefined", "true"}}

Inputs == PresenceInputs \cup OptionInputs \cup ScriptInputs

----------------------------------------------------------------------------
(* Pure helpers. *)

\* a JavaScript truth test of a per-context option (false is falsy, an
\* object is truthy); "undefined" is tested apart, as the code does
Truthy(o) == o.kind = "object"

BackgroundWantedIgnoringOption(opts, m) ==
    m.background \in {"page", "scripts"}
\* index.js:161-163
BackgroundWanted(opts, m) ==
    /\ (opts.background.kind = "undefined" \/ Truthy(opts.background))
    /\ m.background # "none"
    /\ m.background \in {"page", "scripts"}

\* index.js:173-174
PopupWanted(opts, m) ==
    /\ (opts.popup.kind = "undefined" \/ Truthy(opts.popup))
    /\ m.popup

\* index.js:164-166 and 176-178: a non-object option becomes {}
CoerceOption(o) == IF o.kind # "object" THEN EmptyObject ELSE o

KeepApiFake(top, o) == o
\* index.js:167-169 and 179-181: a given top-level apiFake overrides
OverrideApiFake(top, o) ==
    IF top # "undefined" THEN [o EXCEPT !.apiFake = top] ELSE o

\* the stub createBrowser returns (webextensions-api-fake): no fake applied,
\* runtime.sendMessage a plain stub, onMessage.addListener never called
FreshBrowser == [faked |-> FALSE, sendMessage |-> "stub", listeners |-> <<>>]

CreateBrowserShared(bs) == IF bs = <<>> THEN <<FreshBrowser>> ELSE bs
\* index.js:64 and 110: createBrowser makes a new stub on every call
CreateBrowser(bs) == Append(bs, FreshBrowser)

\* webExtensionsApiFake.fakeApi(browser), index.js:72 and 118
FakeApi(br) == [br EXCEPT !.faked = TRUE]

\* index.js:71 and 117: if (options.apiFake)
ApiFakeOn(o) == o.apiFake = "true"

\* index.js:121: if (that.webExtension.background)
WiringCondition(we) == "background" \in DOMAIN we

\* index.js:122: sendMessage.callsFake(...)
Wire(br) == [br EXCEPT !.sendMessage = "yieldBackground"]

\* the src of a script tag of a page loaded from a file, index.js:41-43
ScriptTagSrc(f) == [scheme |-> "file://", path |-> f]
\* path.resolve(path.join(manifestPath, script)), index.js:90
PathResolve(f) == [scheme |-> "", path |-> f]
\* .replace(/^file:\/\//, ''), index.js:43 and 51
StripFileScheme(s) ==
    IF s.scheme = "file://" THEN [s EXCEPT !.scheme = ""] ELSE s

\* nyc.instrument(path): the instrumented source of the file at path
Instrument(s) ==
    IF s.scheme = "" THEN [kind |-> "script", file |-> s.path]
    ELSE [kind |-> "unreadable", file |-> s.path]

Separator == [kind |-> "separator", file |-> ";\n;"]

PrependScript(srcs, code) == <<code, Separator>> \o srcs
\* scriptSrcs += instrumented; scriptSrcs += ";\n;", index.js:44-46, 52-54
AppendScript(srcs, code) == srcs \o <<code, Separator>>

\* the files whose code dom.window.eval(scriptSrcs) runs, in order
Executed(srcs) ==
    LET run == SelectSeq(srcs, LAMBDA t : t.kind = "script")
    IN  [i \in 1..Len(run) |-> run[i].file]

YieldFirst(calls, args) ==
    [i \in 1..(IF calls = <<>> THEN 0 ELSE 1) |->
        [listener |-> calls[i], args |-> args]]
\* sinon's stub.yield(...args) on onMessage.addListener: the callback of
\* every call of the stub is invoked with args, in call order (index.js:123)
Yield(calls, args) ==
    [i \in 1..Len(calls) |-> [listener |-> calls[i], args |-> args]]

\* what the background has registered through runtime.onMessage.addListener
Registered(we, bs) ==
    IF "background" \in DOMAIN we THEN bs[we.background.browser].listeners
    ELSE <<>>

\* a call of runtime.sendMessage(args) on the stub br (index.js:122-125);
\* yield throws when the stub it is called on was never called
SendMessageOn(br, args, we, bs) ==
    IF br.sendMessage = "yieldBackground"
    THEN [args |-> args, registered |-> Registered(we, bs),
          delivered |-> Yield(Registered(we, bs), args),
          threw |-> Registered(we, bs) = <<>>]
    ELSE [args |-> args, registered |-> Registered(we, bs),
          delivered |-> <<>>, threw |-> FALSE]

\* the own properties of the helper object, index.js:133-138
HelperProperties == {"clickElementById"}

\* await of a promise: the continuation runs once it is settled
Settled(p) == p \in {"resolved", "rejected"}
NotAwaited(p) == TRUE
\* await options.afterBuild(...), index.js:104 and 149
AfterBuildAwaited(p) == Settled(p)

\* no sendMessage call and no clickElementById call made yet
NoCall == [args |-> None, registered |-> <<>>, delivered |-> <<>>,
           threw |-> FALSE]
NoClick == [id |-> None, dispatched |-> FALSE, promise |-> None]

NoFrame == [ctx |-> None, browser |-> 0, dom |-> 0, pending |-> <<>>,
            scriptSrcs |-> <<>>]

AwaitPoints ==
    {"bd_fromFile", "bd_instrument", "bd_nextTick", "ab_await", "fm_await"}
\* fromManifest is suspended or has settled: other code may run
Suspended == pc \in AwaitPoints \cup {"done", "rejected"}

----------------------------------------------------------------------------
Init ==
    /\ input \in Inputs
    /\ options = [background |-> input.optBackground,
                  popup |-> input.optPopup,
                  sidebar |-> input.optSidebar,
                  apiFake |-> input.apiFake,
                  wiring |-> input.wiring]
    /\ pc = "fm_background"
    /\ cur = NoFrame
    /\ browsers = <<>>
    /\ doms = <<>>
    /\ webExtension = <<>>
    /\ result = <<>>
    /\ afterBuild = [c \in Contexts |-> "notcalled"]
    /\ lastCall = NoCall
    /\ lastClick = NoClick

----------------------------------------------------------------------------
(* fromManifest, index.js:155-186 *)

\* index.js:160-170: the background branch, up to the call of buildBackground
FmBackground ==
    /\ pc = "fm_background"
    /\ IF BackgroundWanted(options, input)
       THEN /\ options' = [options EXCEPT !.background =
                   OverrideApiFake(options.apiFake, CoerceOption(@))]
            /\ pc' = "bb_start"
       ELSE /\ pc' = "fm_popup"
            /\ UNCHANGED options
    /\ UNCHANGED <<input, cur, browsers, doms, webExtension, result,
                   afterBuild, lastCall, lastClick>>

\* index.js:173-182: the popup branch, up to the call of buildPopup
FmPopup ==
    /\ pc = "fm_popup"
    /\ IF PopupWanted(options, input)
       THEN /\ options' = [options EXCEPT !.popup =
                   OverrideApiFake(options.apiFake, CoerceOption(@))]
            /\ pc' = "bp_start"
       ELSE /\ pc' = "fm_return"
            /\ UNCHANGED options
    /\ UNCHANGED <<input, cur, browsers, doms, webExtension, result,
                   afterBuild, lastCall, lastClick>>

\* index.js:170 and 182: the awaited build has resolved with its context,
\* which is stored in the local webExtension
FmAwait ==
    /\ pc = "fm_await"
    /\ result' = (cur.ctx :> webExtension[cur.ctx]) @@ result
    /\ pc' = IF cur.ctx = "background" THEN "fm_popup" ELSE "fm_return"
    /\ cur' = NoFrame
    /\ UNCHANGED <<input, options, browsers, doms, webExtension, afterBuild,
                   lastCall, lastClick>>

\* index.js:185: return webExtension
FmReturn ==
    /\ pc = "fm_return"
    /\ pc' = "done"
    /\ UNCHANGED <<input, options, cur, browsers, doms, webExtension, result,
                   afterBuild, lastCall, lastClick>>

----------------------------------------------------------------------------
(* buildBackground, index.js:63-107, and buildPopup, index.js:109-152 *)

\* index.js:64-93: createBrowser, then buildDom is called on the page or on
\* the scripts the manifest names
BuildBackgroundStart ==
    /\ pc = "bb_start"
    /\ browsers' = CreateBrowser(browsers)
    /\ cur' = [NoFrame EXCEPT !.ctx = "background",
                              !.browser = Len(browsers')]
    /\ pc' = IF input.background = "page" THEN "bd_fromFile" ELSE "bd_new"
    /\ UNCHANGED <<input, options, doms, webExtension, result, afterBuild,
                   lastCall, lastClick>>

\* index.js:110-113: createBrowser, then buildDom is called on the popup page
BuildPopupStart ==
    /\ pc = "bp_start"
    /\ browsers' = CreateBrowser(browsers)
    /\ cur' = [NoFrame EXCEPT !.ctx = "popup", !.browser = Len(browsers')]
    /\ pc' = "bd_fromFile"
    /\ UNCHANGED <<input, options, doms, webExtension, result, afterBuild,
                   lastCall, lastClick>>

\* the beforeParse callback of a context on the stub br of its window:
\* index.js:69-78 (background) and 115-131 (popup)
BeforeParseBrowser(ctx, br, o, we) ==
    LET faked == IF ApiFakeOn(o) THEN FakeApi(br) ELSE br
    IN  IF ctx = "popup" /\ WiringCondition(we) THEN Wire(faked) ELSE faked

\* window.browser = browser, index.js:70 and 116
WindowBrowser(b) == b

\* the dom JSDOM makes, its beforeParse callback run on its window
NewDom(ctx, b, o) ==
    [ctx |-> ctx, browser |-> WindowBrowser(b),
     userBeforeParse |-> o.beforeParse,
     evalDone |-> FALSE, evaluated |-> <<>>]

DeclaredScripts(ctx) ==
    IF ctx = "background" THEN input.bgScripts ELSE input.popupScripts

\* index.js:40-41: await JSDOM.fromFile(...) and the script tags of the page
DomFromFile ==
    /\ pc = "bd_fromFile"
    /\ doms' = Append(doms, NewDom(cur.ctx, cur.browser, options[cur.ctx]))
    /\ browsers' = [browsers EXCEPT ![cur.browser] =
           BeforeParseBrowser(cur.ctx, @, options[cur.ctx], webExtension)]
    /\ cur' = [cur EXCEPT !.dom = Len(doms'),
                          !.pending = [i \in 1..Len(DeclaredScripts(cur.ctx))
                              |-> ScriptTagSrc(DeclaredScripts(cur.ctx)[i])]]
    /\ pc' = "bd_loop"
    /\ UNCHANGED <<input, options, webExtension, result, afterBuild,
                   lastCall, lastClick>>

\* index.js:87-92 and 49: new JSDOM(html, ...) and the resolved scripts
DomNew ==
    /\ pc = "bd_new"
    /\ doms' = Append(doms, NewDom(cur.ctx, cur.browser, options[cur.ctx]))
    /\ browsers' = [browsers EXCEPT ![cur.browser] =
           BeforeParseBrowser(cur.ctx, @, options[cur.ctx], webExtension)]
    /\ cur' = [cur EXCEPT !.dom = Len(doms'),
                          !.pending = [i \in 1..Len(DeclaredScripts(cur.ctx))
                              |-> PathResolve(DeclaredScripts(cur.ctx)[i])]]
    /\ pc' = "bd_loop"
    /\ UNCHANGED <<input, options, webExtension, result, afterBuild,
                   lastCall, lastClick>>

\* index.js:42-44 and 50-52: the next script, nyc.instrument called on it
InstrumentCall ==
    /\ pc = "bd_loop"
    /\ cur.pending # <<>>
    /\ pc' = "bd_instrument"
    /\ UNCHANGED <<input, options, cur, browsers, doms, webExtension, result,
                   afterBuild, lastCall, lastClick>>

\* index.js:44-46 and 52-54: the instrumented source is appended
InstrumentDone ==
    /\ pc = "bd_instrument"
    /\ cur' = [cur EXCEPT
           !.scriptSrcs = AppendScript(@,
                              Instrument(StripFileScheme(Head(cur.pending)))),
           !.pending = Tail(@)]
    /\ pc' = "bd_loop"
    /\ UNCHANGED <<input, options, browsers, doms, webExtension, result,
                   afterBuild, lastCall, lastClick>>

\* the listeners the scripts run register, in order
ListenersOf(files) == SelectSeq(files, LAMBDA f : f \in ListenerScripts)

\* index.js:57: dom.window.eval(scriptSrcs); the background's scripts call
\* browser.runtime.onMessage.addListener of their window
EvalScripts ==
    /\ pc = "bd_loop"
    /\ cur.pending = <<>>
    /\ doms' = [doms EXCEPT ![cur.dom].evalDone = TRUE,
                            ![cur.dom].evaluated = Executed(cur.scriptSrcs)]
    /\ browsers' =
           IF cur.ctx = "background" /\ doms[cur.dom].browser # 0
           THEN [browsers EXCEPT ![doms[cur.dom].browser].listeners =
                     @ \o ListenersOf(Executed(cur.scriptSrcs))]
           ELSE browsers
    /\ pc' = "bd_nextTick"
    /\ UNCHANGED <<input, options, cur, webExtension, result, afterBuild,
                   lastCall, lastClick>>

\* index.js:58-60: await this.nextTick(); return dom
NextTick ==
    /\ pc = "bd_nextTick"
    /\ pc' = IF cur.ctx = "background" THEN "bb_assign" ELSE "bp_assign"
    /\ UNCHANGED <<input, options, cur, browsers, doms, webExtension, result,
                   afterBuild, lastCall, lastClick>>

\* options.afterBuild(context) is called: a function that returns no
\* promise has returned, one that returns a promise leaves it pending
AfterBuildCalled(o) ==
    IF o.afterBuild = "sync" THEN "resolved" ELSE "pending"

\* index.js:95-104
BuildBackgroundAssign ==
    /\ pc = "bb_assign"
    /\ webExtension' = ("background" :>
           [browser |-> cur.browser, dom |-> cur.dom, document |-> cur.dom,
            writeCoverage |-> "function"])
           @@ webExtension
    /\ IF options.background.afterBuild # "none"
       THEN /\ afterBuild' = [afterBuild EXCEPT !["background"] =
                                  AfterBuildCalled(options.background)]
            /\ pc' = "ab_await"
       ELSE /\ pc' = "fm_await"
            /\ UNCHANGED afterBuild
    /\ UNCHANGED <<input, options, cur, browsers, doms, result, lastCall,
                   lastClick>>

\* index.js:133-149
BuildPopupAssign ==
    /\ pc = "bp_assign"
    /\ webExtension' = ("popup" :>
           [browser |-> cur.browser, dom |-> cur.dom, document |-> cur.dom,
            helper |-> HelperProperties, writeCoverage |-> "function"])
           @@ webExtension
    /\ IF options.popup.afterBuild # "none"
       THEN /\ afterBuild' = [afterBuild EXCEPT !["popup"] =
                                  AfterBuildCalled(options.popup)]
            /\ pc' = "ab_await"
       ELSE /\ pc' = "fm_await"
            /\ UNCHANGED afterBuild
    /\ UNCHANGED <<input, options, cur, browsers, doms, result, lastCall,
                   lastClick>>

\* index.js:104-106 and 149-151: the await of afterBuild, then the return
AfterBuildAwait ==
    /\ pc = "ab_await"
    /\ AfterBuildAwaited(afterBuild[cur.ctx])
    /\ pc' = IF afterBuild[cur.ctx] = "rejected" THEN "rejected"
             ELSE "fm_await"
    /\ UNCHANGED <<input, options, cur, browsers, doms, webExtension, result,
                   afterBuild, lastCall, lastClick>>

----------------------------------------------------------------------------
(* Code that runs while fromManifest is suspended or after it settled. *)

\* the promise an afterBuild callback returned settles
AfterBuildSettle(c, how) ==
    /\ Suspended
    /\ afterBuild[c] = "pending"
    /\ afterBuild' = [afterBuild EXCEPT ![c] = how]
    /\ UNCHANGED <<input, options, pc, cur, browsers, doms, webExtension,
                   result, lastCall, lastClick>>

\* the doms of the popup whose window has a browser
PopupWindows ==
    {d \in 1..Len(doms) : doms[d].ctx = "popup" /\ doms[d].browser # 0}

\* code of the popup context calls browser.runtime.sendMessage(args)
SendMessage(args) ==
    /\ Suspended
    /\ \E d \in PopupWindows :
          lastCall' = SendMessageOn(browsers[doms[d].browser], args,
                                    webExtension, browsers)
    /\ UNCHANGED <<input, options, pc, cur, browsers, doms, webExtension,
                   result, afterBuild, lastClick>>

\* code holding the background's browser calls
\* runtime.onMessage.addListener(listener)
AddListener ==
    /\ Suspended
    /\ "background" \in DOMAIN webExtension
    /\ Len(browsers[webExtension.background.browser].listeners) < MaxListeners
    /\ browsers' = [browsers EXCEPT
           ![webExtension.background.browser].listeners = Append(@, "test")]
    /\ UNCHANGED <<input, options, pc, cur, doms, webExtension, result,
                   afterBuild, lastCall, lastClick>>

\* the click handlers the popup's scripts have added (README.md:86-90)
ClickHandlers(d) == Len(SelectSeq(doms[d].evaluated,
                                  LAMBDA f : f \in SenderScripts))

\* popup.helper.clickElementById(id), index.js:134-137: the click runs the
\* handlers; then this.nextTick is called on the helper object, which has
\* no such property, so the async function's promise is rejected.  An id
\* of no element makes getElementById(id).click() throw.
ClickElementById(id) ==
    /\ Suspended
    /\ "popup" \in DOMAIN webExtension
    /\ LET p == webExtension.popup
       IN  IF id \in ElementIds
           THEN /\ lastClick' =
                       [id |-> id, dispatched |-> TRUE,
                        promise |-> IF "nextTick" \in p.helper
                                    THEN "resolved" ELSE "rejected"]
                /\ lastCall' =
                       IF ClickHandlers(p.dom) > 0 /\ doms[p.dom].browser # 0
                       THEN SendMessageOn(browsers[doms[p.dom].browser],
                                "usefulMessage", webExtension, browsers)
                       ELSE lastCall
           ELSE /\ lastClick' = [id |-> id, dispatched |-> FALSE,
                                 promise |-> "rejected"]
                /\ UNCHANGED lastCall
    /\ UNCHANGED <<input, options, pc, cur, browsers, doms, webExtension,
                   result, afterBuild>>

----------------------------------------------------------------------------
Next ==
    \/ FmBackground
    \/ FmPopup
    \/ FmAwait
    \/ FmReturn
    \/ BuildBackgroundStart
    \/ BuildPopupStart
    \/ DomFromFile
    \/ DomNew
    \/ InstrumentCall
    \/ InstrumentDone
    \/ EvalScripts
    \/ NextTick
    \/ BuildBackgroundAssign
    \/ BuildPopupAssign
    \/ AfterBuildAwait
    \/ \E c \in Contexts, how \in {"resolved", "rejected"} :
          AfterBuildSettle(c, how)
    \/ \E args \in Messages : SendMessage(args)
    \/ AddListener
    \/ \E id \in ElementIds \cup {"missing"} : ClickElementById(id)

Spec == Init /\ [][Next]_vars

----------------------------------------------------------------------------
(* The properties checked. *)

Loaded == DOMAIN webExtension
BrowserOf(c) == browsers[webExtension[c].browser]
DomOf(c) == doms[webExtension[c].dom]
CallMade == lastCall.args # None
ClickMade == lastClick.id # None
\* every registered listener invoked once, in order, with the call's args
DeliveredToAll(call) ==
    call.delivered = [i \in 1..Len(call.registered) |->
                         [listener |-> call.registered[i], args |-> call.args]]

\* C1: with wiring: true and the background and the popup loaded, a call of
\* runtime.sendMessage in the popup invokes every listener the background
\* has registered through runtime.onMessage.addListener, with the arguments
\* of the call.
C1_WiredSendMessageReachesListeners ==
    (input.wiring = "true" /\ CallMade /\ "background" \in Loaded)
        => DeliveredToAll(lastCall)

C1_Witness ==
    /\ input.wiring = "true"
    /\ CallMade
    /\ Loaded = Contexts
    /\ Len(lastCall.registered) >= 2
    /\ Len(lastCall.delivered) = Len(lastCall.registered)
    /\ lastCall.delivered[2].args = lastCall.args

\* C2: without wiring: true (absent or false) a runtime.sendMessage call in
\* the popup never invokes a listener of the background.
C2_NoWiringNoDelivery ==
    (input.wiring # "true" /\ CallMade) => lastCall.delivered = <<>>

\* C3: an afterBuild callback runs only after the dom of its context is
\* built; the promise of the background's afterBuild is settled before the
\* popup dom starts building, and the promise of the popup's afterBuild is
\* settled before fromManifest resolves.
C3_AfterBuildOrder ==
    /\ \A c \in Contexts :
          afterBuild[c] # "notcalled" => (c \in Loaded /\ DomOf(c).evalDone)
    /\ ( /\ cur.ctx = "popup" \/ "popup" \in Loaded
         /\ "background" \in Loaded
         /\ input.optBackground.afterBuild # "none" )
          => Settled(afterBuild["background"])
    /\ ( /\ pc = "done"
         /\ "popup" \in DOMAIN result
         /\ input.optPopup.afterBuild # "none" )
          => Settled(afterBuild["popup"])

C3_Witness ==
    /\ pc = "done"
    /\ input.optBackground.afterBuild = "async"
    /\ input.optPopup.afterBuild = "async"
    /\ afterBuild = [c \in Contexts |-> "resolved"]
    /\ DOMAIN result = Contexts

\* C4: the resolved object has a background property exactly when the
\* manifest defines background.page or background.scripts and
\* options.background is not false, and a popup property exactly when the
\* manifest defines browser_action.default_popup and options.popup is not
\* false.
C4_ResultProperties ==
    pc = "done" =>
        /\ "background" \in DOMAIN result
              <=> ( /\ input.background \in {"page", "scripts"}
                    /\ input.optBackground.kind # "false" )
        /\ "popup" \in DOMAIN result
              <=> (input.popup /\ input.optPopup.kind # "false")

C4_Witness ==
    /\ pc = "done"
    /\ input.background = "scripts"
    /\ input.popup
    /\ input.optPopup.kind = "false"
    /\ DOMAIN result = {"background"}

\* C5: when the manifest defines sidebar_action.default_panel and
\* options.sidebar is not false, the resolved object has a sidebar property.
C5_SidebarLoaded ==
    (pc = "done" /\ input.sidebar /\ input.optSidebar # "false")
        => "sidebar" \in DOMAIN result

\* C6: the resolved object always has a destroy function, and every loaded
\* context has a destroy function of its own.
C6_DestroyPresent ==
    pc = "done" =>
        /\ "destroy" \in DOMAIN result
        /\ \A c \in DOMAIN result \ {"destroy"} :
              "destroy" \in DOMAIN result[c]

\* C7: popup.helper.clickElementById(id) with the id of an element of the
\* popup document clicks the element and returns a promise that resolves.
C7_ClickResolves ==
    (ClickMade /\ lastClick.id \in ElementIds)
        => (lastClick.dispatched /\ lastClick.promise = "resolved")

\* C8: with apiFake: true the fake is applied to the browser of every
\* loaded context; with apiFake absent or false at the top level and set in
\* no per-context option it is applied to none.
C8_ApiFakeApplied ==
    /\ input.apiFake = "true" => \A c \in Loaded : BrowserOf(c).faked
    /\ ( /\ input.apiFake \in {"undefined", "false"}
         /\ input.optBackground.apiFake = "undefined"
         /\ input.optPopup.apiFake = "undefined" )
          => \A b \in 1..Len(browsers) : ~browsers[b].faked

C8_Witness ==
    /\ pc = "done"
    /\ input.apiFake = "true"
    /\ input.optPopup.apiFake = "false"
    /\ Loaded = Contexts
    /\ \A c \in Loaded : BrowserOf(c).faked

\* C9: every loaded context has a dom and a browser stub of its own, the
\* browser of a context is the one exposed as window.browser in its dom,
\* and no two contexts share a dom or a browser.
C9_ContextsIsolated ==
    /\ \A c \in Loaded : DomOf(c).browser = webExtension[c].browser
    /\ \A c, d \in Loaded :
          c # d => /\ webExtension[c].dom # webExtension[d].dom
                   /\ webExtension[c].browser # webExtension[d].browser

C9_Witness ==
    /\ pc = "done"
    /\ DOMAIN result = Contexts
    /\ result["background"].browser # result["popup"].browser
    /\ doms[result["popup"].dom].browser = result["popup"].browser

\* C10: in every dom no script is evaluated before window.browser is
\* installed, the API fake (when enabled) applied and the user's
\* beforeParse run; the scripts are evaluated in their declared order; and
\* buildDom returns only after all of them are evaluated.
C10_ScriptsAfterSetupInOrder ==
    /\ \A d \in 1..Len(doms) :
          doms[d].evalDone =>
              /\ doms[d].browser # 0
              /\ ApiFakeOn(options[doms[d].ctx])
                    => browsers[doms[d].browser].faked
              /\ options[doms[d].ctx].beforeParse => doms[d].userBeforeParse
              /\ doms[d].evaluated = DeclaredScripts(doms[d].ctx)
    /\ \A d \in 1..Len(doms) : ~doms[d].evalDone => doms[d].evaluated = <<>>
    /\ \A c \in Loaded : DomOf(c).evalDone

C10_Witness ==
    \E d \in 1..Len(doms) :
        /\ doms[d].evalDone
        /\ Len(doms[d].evaluated) = 2
        /\ doms[d].evaluated[1] # doms[d].evaluated[2]
        /\ doms[d].userBeforeParse
        /\ browsers[doms[d].browser].faked

====
